---- MODULE Spec2Model ----
(***************************************************************************)
(* Model of large-csv-to-excel: three converters (single sheet, multiple   *)
(* sheets, separate files) that stream a CSV in chunks into openpyxl       *)
(* workbooks, the encoding negotiator convert_with_auto_encoding, and the  *)
(* command-line entry points.                                              *)
(*                                                                         *)
(* A sheet is a function from 0-based row index (pandas' startrow) to a    *)
(* cell record [a |-> attempt that wrote it, r |-> input row], r = 0 being *)
(* the header row and r = j the j-th data row of the CSV.                  *)
(***************************************************************************)
EXTENDS Integers, Sequences, FiniteSets, TLC

\* ---- bounds of the model ----
MaxRows == 4            \* data rows of the input CSV: 0..MaxRows
MaxChunk == 3           \* chunk_size: 1..MaxChunk
MaxRowsPerTarget == 4   \* max_rows_per_sheet / max_rows_per_file: 1..MaxRowsPerTarget
MaxIOFaults == 1        \* I/O faults the environment injects in one run

\* ---- program constants ----
encodings == <<"utf-8", "latin-1", "cp1252", "iso-8859-1">>
ExplicitEncoding == "explicit"

Variants == {"single", "sheets", "files"}

VARIABLES
    variant,            \* which of the three scripts runs
    R,                  \* data rows of the input (header excluded)
    chunk_size,         \* self.chunk_size
    max_rows,           \* max_rows_per_sheet / max_rows_per_file
    inputExists,        \* os.path.exists(csv_path)
    lineCount,          \* what estimate_total_rows returns for this input
    pc,                 \* control position
    mode,               \* "auto" | "explicit" | "none"
    viaMain,            \* the operation was started by main()
    encIdx,             \* index into encodings of the running attempt (0: explicit)
    attemptOk,          \* return value of the last conversion attempt
    result,             \* what the operation returned: "none" | "success" | "failure"
    exitCode,           \* sys.exit status, -1 while running
    current_target,     \* current_sheet / current_file
    rows_in_current,    \* rows_in_current_sheet / rows_in_current_file
    first_chunk,        \* first_chunk / first_chunk_in_sheet / first_chunk_in_file
    chunk_number,       \* chunk_number
    processed_rows,     \* self.processed_rows
    total_rows,         \* self.total_rows
    targets,            \* sheets of the workbook(s) of the running attempt, by target index
    openWriters,        \* ExcelWriter objects opened and not closed: [att, file]
    disk,               \* output files on disk, by file index
    writes,             \* to_excel calls of the running attempt, in order
    attemptLog,         \* outcome of every finished attempt, in order
    ioFaults            \* I/O faults injected so far

vars == <<variant, R, chunk_size, max_rows, inputExists, lineCount, pc, mode,
          viaMain, encIdx, attemptOk, result, exitCode, current_target,
          rows_in_current, first_chunk, chunk_number, processed_rows,
          total_rows, targets, openWriters, disk, writes, attemptLog, ioFaults>>

config == <<variant, R, chunk_size, max_rows, inputExists, lineCount>>
locals == <<current_target, rows_in_current, first_chunk, chunk_number>>

\* ---- helpers ----
Max(S) == CHOOSE x \in S : \A y \in S : y <= x

Min2(a, b) == IF a <= b THEN a ELSE b

CeilDiv(a, b) == (a + b - 1) \div b

EmptySheet == [i \in {} |-> 0]

NoTargets == [t \in {} |-> EmptySheet]

\* pd.read_csv(chunksize=...): the number of chunks the reader yields; a
\* header-only input yields one empty chunk.
NumChunks == IF R = 0 THEN 1 ELSE CeilDiv(R, chunk_size)

\* len(chunk) of the k-th chunk: the header is not a row of the chunk.
ChunkLen(k) == IF R = 0 THEN 0 ELSE Min2(chunk_size, R - (k - 1) * chunk_size)

\* the data rows of the k-th chunk, as cells written by attempt a
ChunkCells(k, a) ==
    [i \in 1..ChunkLen(k) |-> [a |-> a, r |-> (k - 1) * chunk_size + i]]

HeaderCell(a) == [a |-> a, r |-> 0]

\* DataFrame.to_excel(writer, sheet_name, index=False, header=..., startrow=...):
\* cells are assigned from row startrow on, the header first when asked for;
\* cells already in the sheet at those rows are overwritten.
to_excel(sheet, cells, header, startrow, a) ==
    LET out == IF header THEN <<HeaderCell(a)>> \o cells ELSE cells
        rng == startrow .. (startrow + Len(out) - 1)
    IN  [i \in (DOMAIN sheet) \cup rng |->
            IF i \in rng THEN out[i - startrow + 1] ELSE sheet[i]]

\* openpyxl Worksheet.max_row: 1-based index of the last row holding a cell
max_row(sheet) == IF DOMAIN sheet = {} THEN 1 ELSE Max(DOMAIN sheet) + 1

\* number of rows a sheet holds
RowCount(sheet) == Cardinality(DOMAIN sheet)

SheetOf(t) == IF t \in DOMAIN targets THEN targets[t] ELSE EmptySheet

AttemptNo == Len(attemptLog) + 1

CurrentEncoding == IF encIdx = 0 THEN ExplicitEncoding ELSE encodings[encIdx]

\* latin-1 and iso-8859-1 map every byte to a character: decoding cannot fail
CanFailDecode(enc) == enc \notin {"latin-1", "iso-8859-1"}

OldFile == [state |-> "old", att |-> 0, sheets |-> NoTargets]
EmptyFile(a) == [state |-> "empty", att |-> a, sheets |-> NoTargets]
SavedFile(a, sh) == [state |-> "saved", att |-> a, sheets |-> sh]

\* the file a writer of the running attempt is bound to
FileOf(t) == IF variant = "files" THEN t ELSE 1

\* the sheets held by the workbook bound to file f
SheetsOfFile(f, tg) ==
    IF variant = "files"
    THEN [t \in (DOMAIN tg) \cap {f} |-> tg[t]]
    ELSE tg

\* pd.ExcelWriter(path, engine='openpyxl'): the file is opened for writing
OpenWriter(d, f, a) == [g \in (DOMAIN d) \cup {f} |-> IF g = f THEN EmptyFile(a) ELSE d[g]]

\* ExcelWriter.close(): the workbook is saved to its path
CloseWriter(d, f, a, tg) ==
    [g \in (DOMAIN d) \cup {f} |-> IF g = f THEN SavedFile(a, SheetsOfFile(f, tg)) ELSE d[g]]

Init ==
    /\ variant \in Variants
    /\ R \in 0..MaxRows
    /\ chunk_size \in 1..MaxChunk
    /\ max_rows \in IF variant = "single" THEN {MaxRowsPerTarget} ELSE 1..MaxRowsPerTarget
    /\ inputExists \in BOOLEAN
    /\ lineCount \in {R + 1, 0}
    /\ pc = "start"
    /\ mode = "none"
    /\ viaMain = FALSE
    /\ encIdx = 0
    /\ attemptOk = FALSE
    /\ result = "none"
    /\ exitCode = -1
    /\ current_target = 1
    /\ rows_in_current = 0
    /\ first_chunk = TRUE
    /\ chunk_number = 0
    /\ processed_rows = 0
    /\ total_rows = 0
    /\ targets = NoTargets
    /\ openWriters = {}
    /\ disk \in {[f \in {} |-> OldFile], [f \in {1} |-> OldFile]}
    /\ writes = <<>>
    /\ attemptLog = <<>>
    /\ ioFaults = 0


\* ---- the end of a conversion attempt: the value convert_* returns ----
\* the level of the message convert_* logs when it returns: logger.error on
\* the not-found path and in the except clause, logger.info on success
LogLevel_Quiet(ok) == "info"

LogLevel(ok) == IF ok THEN "info" ELSE "error"

EndAttempt(ok, kind) ==
    /\ attemptOk' = ok
    /\ attemptLog' = Append(attemptLog, [enc |-> CurrentEncoding, outcome |-> kind,
                                         logged |-> LogLevel(ok)])
    /\ pc' = "returned"

\* ---- main(): the input file is missing ----
MainMissingInput ==
    /\ pc = "start"
    /\ ~inputExists
    /\ viaMain' = TRUE
    /\ exitCode' = 1
    /\ pc' = "exited"
    /\ UNCHANGED <<config, mode, encIdx, attemptOk, result, locals, processed_rows,
                   total_rows, targets, openWriters, disk, writes, attemptLog, ioFaults>>

\* ---- main() of the single and multi-sheet scripts: the output exists and
\*      the user does not answer s/sim/y/yes ----
MainDeclineOverwrite ==
    /\ pc = "start"
    /\ inputExists
    /\ variant \in {"single", "sheets"}
    /\ 1 \in DOMAIN disk
    /\ viaMain' = TRUE
    /\ exitCode' = 0
    /\ pc' = "exited"
    /\ UNCHANGED <<config, mode, encIdx, attemptOk, result, locals, processed_rows,
                   total_rows, targets, openWriters, disk, writes, attemptLog, ioFaults>>

\* ---- main(): the conversion is started, under --encoding auto or a named
\*      encoding; the multi-file script first removes the {prefix}_P{i}.xlsx
\*      files it finds ----
MainConvert(m) ==
    /\ pc = "start"
    /\ inputExists
    /\ viaMain' = TRUE
    /\ mode' = m
    /\ encIdx' = IF m = "auto" THEN 1 ELSE 0
    /\ disk' = IF variant = "files" THEN [f \in {} |-> OldFile] ELSE disk
    /\ pc' = "attempt"
    /\ UNCHANGED <<config, attemptOk, result, exitCode, locals, processed_rows,
                   total_rows, targets, openWriters, writes, attemptLog, ioFaults>>

\* ---- a caller invokes convert_with_auto_encoding (m = "auto") or the
\*      conversion method itself (m = "explicit") on a fresh converter ----
ApiCall(m) ==
    /\ pc = "start"
    /\ viaMain' = FALSE
    /\ mode' = m
    /\ encIdx' = IF m = "auto" THEN 1 ELSE 0
    /\ pc' = "attempt"
    /\ UNCHANGED <<config, attemptOk, result, exitCode, locals, processed_rows,
                   total_rows, targets, openWriters, disk, writes, attemptLog, ioFaults>>

\* ---- convert_*: "if not os.path.exists(csv_path): return False" ----
InputFound_Unchecked == TRUE

InputFound == inputExists

\* current_sheet = 1 / current_file = 1 at the start of every attempt
InitialTarget_Carried == current_target

InitialTarget == 1

AttemptInputMissing ==
    /\ pc = "attempt"
    /\ ~InputFound
    /\ EndAttempt(FALSE, "not_found")
    /\ UNCHANGED <<config, mode, viaMain, encIdx, result, exitCode, locals,
                   processed_rows, total_rows, targets, openWriters, disk, writes, ioFaults>>

\* ---- convert_*: the code before the chunk loop: the row estimate, the
\*      ExcelWriter of the single and multi-sheet variants, the loop's locals ----
BeginAttempt ==
    /\ pc = "attempt"
    /\ InputFound
    /\ total_rows' = lineCount
    /\ IF variant = "files"
       THEN UNCHANGED <<openWriters, disk>>
       ELSE /\ openWriters' = openWriters \cup {[att |-> AttemptNo, file |-> 1]}
            /\ disk' = OpenWriter(disk, 1, AttemptNo)
    /\ current_target' = InitialTarget
    /\ rows_in_current' = 0
    /\ first_chunk' = TRUE
    /\ chunk_number' = 0
    /\ targets' = NoTargets
    /\ writes' = <<>>
    /\ pc' = "loop"
    /\ UNCHANGED <<config, mode, viaMain, encIdx, attemptOk, result, exitCode,
                   processed_rows, attemptLog, ioFaults>>

\* ---- convert_*: an OSError before the chunk loop, raised by
\*      estimate_total_rows or by the ExcelWriter constructor ----
AttemptSetupIOError ==
    /\ pc = "attempt"
    /\ InputFound
    /\ ioFaults < MaxIOFaults
    /\ ioFaults' = ioFaults + 1
    /\ \E at \in {"count", "open"} :
          /\ at = "open" => variant # "files"
          /\ total_rows' = IF at = "open" THEN lineCount ELSE total_rows
          /\ EndAttempt(FALSE, IF at = "count" THEN "count_error" ELSE "io")
    /\ UNCHANGED <<config, mode, viaMain, encIdx, result, exitCode, locals,
                   processed_rows, targets, openWriters, disk, writes>>

\* ---- one iteration of the chunk loop ----
NextLen == ChunkLen(chunk_number + 1)

\* "if rows_in_current + chunk_rows > max_rows": the single-sheet variant has no such test
Rotate_AtCeiling == variant # "single" /\ rows_in_current + NextLen >= max_rows

Rotate == variant # "single" /\ rows_in_current + NextLen > max_rows

TargetAfter == IF Rotate THEN current_target + 1 ELSE current_target

RowsAfterRotate == IF Rotate THEN 0 ELSE rows_in_current

FirstAfter_NotReset == first_chunk

FirstAfter == IF Rotate THEN TRUE ELSE first_chunk

\* current_excel_writer of the multi-file variant
CurrentWriter == [att |-> AttemptNo, file |-> FileOf(current_target)]

HasWriter == CurrentWriter \in openWriters

NewWriter == [att |-> AttemptNo, file |-> FileOf(TargetAfter)]

\* the writers after the rotation test and the lazy open of the first file
WritersAfter ==
    IF variant # "files" THEN openWriters
    ELSE IF Rotate THEN (openWriters \ {CurrentWriter}) \cup {NewWriter}
    ELSE openWriters \cup {NewWriter}

DiskAfter ==
    IF variant # "files" THEN disk
    ELSE IF Rotate
         THEN OpenWriter(IF HasWriter
                         THEN CloseWriter(disk, current_target, AttemptNo, targets)
                         ELSE disk,
                         TargetAfter, AttemptNo)
    ELSE IF HasWriter THEN disk
    ELSE OpenWriter(disk, TargetAfter, AttemptNo)

\* the startrow argument of the to_excel call
StartRow_ZeroBasedMaxRow ==
    IF FirstAfter THEN 0
    ELSE IF variant = "single" THEN max_row(SheetOf(1)) - 1
    ELSE RowsAfterRotate

StartRow ==
    IF FirstAfter THEN 0
    ELSE IF variant = "single" THEN max_row(SheetOf(1))
    ELSE RowsAfterRotate

WriteRecord ==
    [t |-> TargetAfter, start |-> StartRow, hdr |-> FirstAfter, n |-> NextLen,
     k |-> chunk_number + 1, before |-> RowCount(SheetOf(TargetAfter))]

TargetsAfterWrite ==
    LET sh == to_excel(SheetOf(TargetAfter), ChunkCells(chunk_number + 1, AttemptNo),
                       FirstAfter, StartRow, AttemptNo)
    IN  [t \in (DOMAIN targets) \cup {TargetAfter} |->
            IF t = TargetAfter THEN sh ELSE targets[t]]

\* the chunk is read, allocated and written
ProcessChunk ==
    /\ pc = "loop"
    /\ chunk_number < NumChunks
    /\ total_rows # 0
    /\ chunk_number' = chunk_number + 1
    /\ processed_rows' = processed_rows + NextLen
    /\ current_target' = TargetAfter
    /\ first_chunk' = FALSE
    /\ rows_in_current' = IF variant = "single" THEN rows_in_current
                          ELSE RowsAfterRotate + NextLen
    /\ openWriters' = WritersAfter
    /\ disk' = DiskAfter
    /\ targets' = TargetsAfterWrite
    /\ writes' = Append(writes, WriteRecord)
    /\ UNCHANGED <<config, pc, mode, viaMain, encIdx, attemptOk, result, exitCode,
                   total_rows, attemptLog, ioFaults>>

\* pd.read_csv raises UnicodeDecodeError while reading the next chunk
ChunkDecodeError ==
    /\ pc = "loop"
    /\ chunk_number < NumChunks
    /\ CanFailDecode(CurrentEncoding)
    /\ EndAttempt(FALSE, "decode")
    /\ UNCHANGED <<config, mode, viaMain, encIdx, result, exitCode, locals,
                   processed_rows, total_rows, targets, openWriters, disk, writes, ioFaults>>

\* the progress line divides by self.total_rows: ZeroDivisionError when the
\* estimate was 0; the rotation test has already run
ChunkProgressError ==
    /\ pc = "loop"
    /\ chunk_number < NumChunks
    /\ total_rows = 0
    /\ chunk_number' = chunk_number + 1
    /\ processed_rows' = processed_rows + NextLen
    /\ current_target' = TargetAfter
    /\ first_chunk' = FirstAfter
    /\ rows_in_current' = RowsAfterRotate
    /\ openWriters' = WritersAfter
    /\ disk' = DiskAfter
    /\ EndAttempt(FALSE, "zero_division")
    /\ UNCHANGED <<config, mode, viaMain, encIdx, result, exitCode, total_rows,
                   targets, writes, ioFaults>>

\* to_excel raises: the rotation test and the progress line have already run
ChunkIOError ==
    /\ pc = "loop"
    /\ chunk_number < NumChunks
    /\ total_rows # 0
    /\ ioFaults < MaxIOFaults
    /\ ioFaults' = ioFaults + 1
    /\ chunk_number' = chunk_number + 1
    /\ processed_rows' = processed_rows + NextLen
    /\ current_target' = TargetAfter
    /\ first_chunk' = FirstAfter
    /\ rows_in_current' = RowsAfterRotate
    /\ openWriters' = WritersAfter
    /\ disk' = DiskAfter
    /\ EndAttempt(FALSE, "io")
    /\ UNCHANGED <<config, mode, viaMain, encIdx, result, exitCode, total_rows,
                   targets, writes>>

\* the reader is exhausted: the (last) writer is closed and True is returned
EndOfInput ==
    /\ pc = "loop"
    /\ chunk_number = NumChunks
    /\ openWriters' = openWriters \ {CurrentWriter}
    /\ disk' = CloseWriter(disk, FileOf(current_target), AttemptNo, targets)
    /\ EndAttempt(TRUE, "ok")
    /\ UNCHANGED <<config, mode, viaMain, encIdx, result, exitCode, locals,
                   processed_rows, total_rows, targets, writes, ioFaults>>

\* the closing save raises
EndOfInputIOError ==
    /\ pc = "loop"
    /\ chunk_number = NumChunks
    /\ ioFaults < MaxIOFaults
    /\ ioFaults' = ioFaults + 1
    /\ EndAttempt(FALSE, "io")
    /\ UNCHANGED <<config, mode, viaMain, encIdx, result, exitCode, locals,
                   processed_rows, total_rows, targets, openWriters, disk, writes>>

\* ---- "if args.encoding == 'auto'": only convert_with_auto_encoding
\*      makes further attempts ----
Retries_Always(m) == TRUE

Retries(m) == m = "auto"

\* ---- convert_with_auto_encoding: the loop over encodings ----
NegotiatorStep ==
    /\ pc = "returned"
    /\ Retries(mode)
    /\ IF attemptOk
       THEN /\ result' = "success"
            /\ pc' = "done"
            /\ UNCHANGED encIdx
       ELSE IF encIdx < Len(encodings)
       THEN /\ encIdx' = encIdx + 1
            /\ pc' = "attempt"
            /\ UNCHANGED result
       ELSE /\ result' = "failure"
            /\ pc' = "done"
            /\ UNCHANGED encIdx
    /\ UNCHANGED <<config, mode, viaMain, attemptOk, exitCode, locals, processed_rows,
                   total_rows, targets, openWriters, disk, writes, attemptLog, ioFaults>>

\* ---- the conversion method called with a named encoding returns ----
DirectReturn ==
    /\ pc = "returned"
    /\ ~Retries(mode)
    /\ result' = IF attemptOk THEN "success" ELSE "failure"
    /\ pc' = "done"
    /\ UNCHANGED <<config, mode, viaMain, encIdx, attemptOk, exitCode, locals,
                   processed_rows, total_rows, targets, openWriters, disk, writes,
                   attemptLog, ioFaults>>

\* ---- main(): sys.exit(0) if success else sys.exit(1) ----
ExitStatus_Inverted(success) == IF success = "success" THEN 1 ELSE 0

ExitStatus(success) == IF success = "success" THEN 0 ELSE 1

MainExit ==
    /\ pc = "done"
    /\ viaMain
    /\ exitCode' = ExitStatus(result)
    /\ pc' = "exited"
    /\ UNCHANGED <<config, mode, viaMain, encIdx, attemptOk, result, locals,
                   processed_rows, total_rows, targets, openWriters, disk, writes,
                   attemptLog, ioFaults>>

Next ==
    \/ MainMissingInput
    \/ MainDeclineOverwrite
    \/ \E m \in {"auto", "explicit"} : MainConvert(m)
    \/ \E m \in {"auto", "explicit"} : ApiCall(m)
    \/ AttemptInputMissing
    \/ BeginAttempt
    \/ AttemptSetupIOError
    \/ ProcessChunk
    \/ ChunkDecodeError
    \/ ChunkProgressError
    \/ ChunkIOError
    \/ EndOfInput
    \/ EndOfInputIOError
    \/ NegotiatorStep
    \/ DirectReturn
    \/ MainExit

Spec == Init /\ [][Next]_vars

TypeOK ==
    /\ pc \in {"start", "attempt", "loop", "returned", "done", "exited"}
    /\ chunk_number \in 0..NumChunks
    /\ encIdx \in 0..Len(encodings)


\* ---- shared vocabulary of the properties ----
MultiTarget == variant \in {"sheets", "files"}

\* the last finished attempt returned True (no attempt follows a success)
Succeeded == Len(attemptLog) > 0 /\ attemptLog[Len(attemptLog)].outcome = "ok"

\* the chunk a data row belongs to
ChunkOf(r) == ((r - 1) \div chunk_size) + 1

\* a later attempt has been started after attempt i finished
AttemptFollows(i) == i < Len(attemptLog) \/ pc \in {"attempt", "loop"}

OversizedChunk == \E k \in 1..NumChunks : ChunkLen(k) > max_rows

\* ---------------------------------------------------------------------------
\* C1: in the multi-sheet and multi-file variants every write into a target
\* after the first starts at the row equal to the number of rows (header and
\* data) the target already holds, so nothing is overwritten and no gap is left.
C1_ContiguousAppend ==
    MultiTarget =>
        \A i \in 1..Len(writes) :
            (\E j \in 1..(i - 1) : writes[j].t = writes[i].t)
                => writes[i].start = writes[i].before

\* ---------------------------------------------------------------------------
\* C2: in the multi-sheet and multi-file variants no target ever holds more
\* than max_rows rows, and the rows of one chunk all lie in one target.
C2_CeilingAndNoSplit ==
    MultiTarget =>
        /\ \A t \in DOMAIN targets : RowCount(targets[t]) <= max_rows
        /\ \A t1, t2 \in DOMAIN targets :
              \A i1 \in DOMAIN targets[t1], i2 \in DOMAIN targets[t2] :
                 ( /\ targets[t1][i1].r > 0
                   /\ targets[t2][i2].r > 0
                   /\ ChunkOf(targets[t1][i1].r) = ChunkOf(targets[t2][i2].r) )
                 => t1 = t2

\* ---------------------------------------------------------------------------
\* C3: when a chunk has more rows than max_rows, the multi-sheet and multi-file
\* conversions fail with a configuration error: the oversized chunk is never
\* written and no attempt returns success.
C3_OversizedChunkRejected ==
    (MultiTarget /\ OversizedChunk) =>
        /\ \A i \in 1..Len(writes) : writes[i].n <= max_rows
        /\ \A i \in 1..Len(attemptLog) : attemptLog[i].outcome # "ok"
        /\ result # "success"

\* ---------------------------------------------------------------------------
\* C4: in auto-encoding mode an attempt under the next encoding is started
\* only after an attempt that failed with a decode error.
C4_RetryOnlyAfterDecodeError ==
    mode = "auto" =>
        \A i \in 1..Len(attemptLog) :
            AttemptFollows(i) => attemptLog[i].outcome = "decode"

\* ---------------------------------------------------------------------------
\* C5 as stated: the exit status is 0 exactly when the conversion succeeded.
C5_ExitZeroIffSuccess ==
    pc = "exited" => (exitCode = 0 <=> result = "success")

\* the user declined the overwrite prompt: main() left with the input present
\* and no conversion started
Declined == pc = "exited" /\ inputExists /\ mode = "none"

\* C5 amended: the exit status is 0 when the conversion succeeded and when the
\* user declines the overwrite prompt (no conversion is run); it is non-zero
\* when the input is missing or the conversion failed.
C5_ExitStatus ==
    pc = "exited" => (exitCode = 0 <=> (result = "success" \/ Declined))

C5_Witness == Declined /\ exitCode = 0 /\ 1 \in DOMAIN disk /\ disk[1].state = "old"

DataTargets == IF R = 0 THEN 1 ELSE CeilDiv(R, max_rows)

C7_SingleSheetRows ==
    (variant = "single" /\ Succeeded) =>
        /\ DOMAIN targets = {1}
        /\ DOMAIN targets[1] = 0..R
        /\ \A i \in 0..R : targets[1][i].r = i
        /\ disk[1].state = "saved" /\ disk[1].sheets = targets

C7_Witness ==
    /\ variant = "single" /\ Succeeded
    /\ R >= 3 /\ Len(writes) >= 2
    /\ writes[Len(writes)].n < chunk_size

\* ---------------------------------------------------------------------------
\* C8: after a successful multi-target conversion that ends with target index
\* N the targets created are exactly 1..N.
C8_TargetsNumberedFromOne ==
    (MultiTarget /\ Succeeded) =>
        /\ DOMAIN targets = 1..current_target
        /\ variant = "files" =>
              {f \in DOMAIN disk : disk[f].state = "saved"} = 1..current_target

\* ---------------------------------------------------------------------------
\* C9: in all three variants the first write into a target, and only that one,
\* carries the header, at row 0; every target written to holds the header row
\* exactly once.
C9_HeaderOncePerTarget ==
    /\ \A i \in 1..Len(writes) :
          /\ writes[i].hdr <=> (\A j \in 1..(i - 1) : writes[j].t # writes[i].t)
          /\ writes[i].hdr => writes[i].start = 0
    /\ \A t \in DOMAIN targets :
          {i \in DOMAIN targets[t] : targets[t][i].r = 0} = {0}

C9_Witness ==
    /\ Len(writes) >= 3
    /\ writes[2].t = writes[1].t
    /\ writes[3].t # writes[1].t
    /\ ~writes[2].hdr /\ writes[3].hdr

\* ---------------------------------------------------------------------------
\* C10: with a named encoding, a decode error ends the run: one attempt, no
\* attempt under another encoding, the conversion returns failure and main()
\* exits with a non-zero status.
C10_ExplicitDecodeErrorIsFinal ==
    (mode = "explicit" /\ Len(attemptLog) >= 1 /\ attemptLog[1].outcome = "decode") =>
        /\ Len(attemptLog) = 1
        /\ attemptLog[1].enc = ExplicitEncoding
        /\ encIdx = 0
        /\ pc \in {"returned", "done", "exited"}
        /\ pc \in {"done", "exited"} => result = "failure"
        /\ pc = "exited" => exitCode # 0

C10_Witness ==
    /\ mode = "explicit" /\ viaMain /\ pc = "exited" /\ exitCode = 1
    /\ Len(attemptLog) = 1 /\ attemptLog[1].outcome = "decode"
    /\ chunk_number >= 1

\* ---------------------------------------------------------------------------
\* the input decodes under a fallback encoding only: the utf-8 attempt failed
\* with a decode error and no attempt failed for any other reason
DecodesOnlyUnderFallback ==
    /\ Len(attemptLog) >= 1
    /\ attemptLog[1].outcome = "decode"
    /\ \A i \in 1..Len(attemptLog) : attemptLog[i].outcome \in {"decode", "ok"}

\* the order of the attempts and the stop at the first success
TriedInOrderUntilSuccess ==
    /\ \A i \in 1..Len(attemptLog) : attemptLog[i].enc = encodings[i]
    /\ \A i \in 1..Len(attemptLog) :
          attemptLog[i].outcome = "ok" => (i = Len(attemptLog) /\ pc \notin {"attempt", "loop"})
    /\ (DecodesOnlyUnderFallback /\ pc \in {"done", "exited"}) => result = "success"

\* C11: in auto-encoding mode the encodings are tried in the order utf-8,
\* latin-1, cp1252, iso-8859-1, no attempt follows a successful one, and an
\* input that decodes only under a fallback encoding ends in success with no
\* error shown to the user.
C11_FallbackSucceedsSilently ==
    mode = "auto" =>
        /\ TriedInOrderUntilSuccess
        /\ (DecodesOnlyUnderFallback /\ pc \in {"done", "exited"}) =>
              \A i \in 1..Len(attemptLog) : attemptLog[i].logged # "error"

\* ---------------------------------------------------------------------------
\* what convert_with_auto_encoding returns when the list of encodings is
\* exhausted: "return False"
NoViableEncodingOutcome == "failure"

\* every candidate encoding was tried and failed to decode the input
NoViableEncoding ==
    /\ mode = "auto"
    /\ Len(attemptLog) = Len(encodings)
    /\ \A i \in 1..Len(attemptLog) : attemptLog[i].outcome = "decode"

\* C12: the outcome the operation ends with when every candidate encoding
\* fails is one the caller can tell apart from an I/O or a configuration
\* failure: the operation returns that outcome only when no encoding was viable.
C12_NoViableEncodingDistinct ==
    (pc \in {"done", "exited"} /\ result = NoViableEncodingOutcome) => NoViableEncoding

\* ---------------------------------------------------------------------------
\* C13: after a run that ends in failure every output path holds either no
\* file or the file that existed before the run, unchanged: never an empty or
\* partly written file.
C13_FailureLeavesNoPartialOutput ==
    (pc \in {"done", "exited"} /\ result = "failure") =>
        \A f \in DOMAIN disk : disk[f].state = "old"

\* ---------------------------------------------------------------------------
\* C14: the row-count pre-scan is advisory: no attempt fails because the
\* pre-scan raised an error other than a decode error, or because it returned 0
\* while the reader yields a chunk.
C14_PreScanAdvisory ==
    \A i \in 1..Len(attemptLog) :
        attemptLog[i].outcome \notin {"count_error", "zero_division"}

\* ---------------------------------------------------------------------------
\* The scenario of the specification: a header and 25 data rows, chunk_size 10,
\* max_rows_per_target 20, in the multi-sheet and the multi-file variant.
InitScenario ==
    /\ variant \in {"sheets", "files"}
    /\ R = 25
    /\ chunk_size = 10
    /\ max_rows = 20
    /\ inputExists \in BOOLEAN
    /\ lineCount \in {R + 1, 0}
    /\ pc = "start"
    /\ mode = "none"
    /\ viaMain = FALSE
    /\ encIdx = 0
    /\ attemptOk = FALSE
    /\ result = "none"
    /\ exitCode = -1
    /\ current_target = 1
    /\ rows_in_current = 0
    /\ first_chunk = TRUE
    /\ chunk_number = 0
    /\ processed_rows = 0
    /\ total_rows = 0
    /\ targets = NoTargets
    /\ openWriters = {}
    /\ disk \in {[f \in {} |-> OldFile], [f \in {1} |-> OldFile]}
    /\ writes = <<>>
    /\ attemptLog = <<>>
    /\ ioFaults = 0

SpecScenario == InitScenario /\ [][Next]_vars

\* C15: with 25 data rows, chunk_size 10 and max_rows 20 a successful
\* multi-target conversion produces exactly 2 targets: the chunks of 10 and 10
\* rows go to target 1 and the last chunk of 5 rows to target 2.
C15_ScenarioTwoTargets ==
    (MultiTarget /\ R = 25 /\ chunk_size = 10 /\ max_rows = 20 /\ Succeeded) =>
        /\ current_target = 2
        /\ DOMAIN targets = {1, 2}
        /\ [i \in 1..Len(writes) |-> writes[i].t] = <<1, 1, 2>>
        /\ [i \in 1..Len(writes) |-> writes[i].n] = <<10, 10, 5>>

C15_Witness ==
    /\ MultiTarget /\ R = 25 /\ chunk_size = 10 /\ max_rows = 20
    /\ Succeeded /\ pc = "exited" /\ exitCode = 0
    /\ Len(writes) = 3 /\ current_target = 2

\* ---------------------------------------------------------------------------
\* Reading the output back: the sheet of target t as saved on disk
SavedSheet(t) ==
    LET f == FileOf(t)
    IN  IF f \in DOMAIN disk /\ disk[f].state = "saved" /\ t \in DOMAIN disk[f].sheets
        THEN disk[f].sheets[t]
        ELSE EmptySheet

\* the input rows found below the header row of a sheet, from row i on, top down
RECURSIVE DataRowsFrom(_, _)
DataRowsFrom(sheet, i) ==
    IF DOMAIN sheet = {} \/ i > Max(DOMAIN sheet) THEN <<>>
    ELSE (IF i \in DOMAIN sheet THEN <<sheet[i].r>> ELSE <<>>)
         \o DataRowsFrom(sheet, i + 1)

\* the data rows of targets t..N, concatenated in index order
RECURSIVE ReadBackFrom(_)
ReadBackFrom(t) ==
    IF t > current_target THEN <<>>
    ELSE DataRowsFrom(SavedSheet(t), 1) \o ReadBackFrom(t + 1)

\* C16: after a successful multi-target conversion the data rows read back
\* from targets 1..N, in index order, are exactly the data rows of the input, in
\* input order, none missing and none twice.
C16_RoundTrip ==
    (MultiTarget /\ Succeeded) => ReadBackFrom(1) = [i \in 1..R |-> i]

\* ---------------------------------------------------------------------------
\* C17: in the multi-file variant, attempts of the auto-encoding mode included,
\* at most one ExcelWriter is open at any time, none is open before the first
\* chunk of an attempt, and every writer opened has been closed when the run ends.
C17_OneWriterAllClosed ==
    variant = "files" =>
        /\ Cardinality(openWriters) <= 1
        /\ (pc = "loop" /\ chunk_number = 0) => ~HasWriter
        /\ pc \in {"done", "exited"} => openWriters = {}

\* ---------------------------------------------------------------------------
\* C18: every conversion attempt starts with target index 1, 0 rows in the
\* current target and 0 rows processed; hence after a successful run the
\* rows-processed counter equals the number of data rows of the input.
C18_CountersStartFresh ==
    /\ (pc = "loop" /\ chunk_number = 0) =>
          (current_target = 1 /\ rows_in_current = 0 /\ processed_rows = 0)
    /\ Succeeded => processed_rows = R

\* ---------------------------------------------------------------------------
\* C19: when an auto-encoding run succeeds after failed attempts, every output
\* file written during the run, and every sheet in it, holds only what the
\* successful attempt wrote: nothing a failed attempt wrote is left.
C19_AttemptsNotIncremental ==
    (mode = "auto" /\ Succeeded /\ Len(attemptLog) >= 2) =>
        \A f \in DOMAIN disk :
            disk[f].state # "old" =>
                /\ disk[f].state = "saved"
                /\ disk[f].att = Len(attemptLog)
                /\ \A t \in DOMAIN disk[f].sheets :
                      \A i \in DOMAIN disk[f].sheets[t] :
                          disk[f].sheets[t][i].a = Len(attemptLog)

\* the utf-8 attempt of a multi-file run read more than max_rows rows, so it
\* had saved a file at a rotation, before it failed; the second attempt succeeded
C19_Witness ==
    /\ variant = "files" /\ mode = "auto" /\ Succeeded
    /\ Len(attemptLog) = 2 /\ attemptLog[1].outcome = "decode"
    /\ ~OversizedChunk
    /\ processed_rows > R + max_rows
    /\ Cardinality(DOMAIN disk) >= 2

\* ---------------------------------------------------------------------------
\* C20: when the input path does not exist no step of any operation opens a
\* writer, touches an output file or runs the row counter; every attempt
\* returns failure at the existence test, the operation returns failure, and
\* main() exits with status 1 without starting a conversion attempt.
C20_MissingInputNoEffect ==
    [][ ~inputExists =>
          /\ disk' = disk
          /\ openWriters' = {}
          /\ total_rows' = 0
          /\ targets' = NoTargets
          /\ \A i \in 1..Len(attemptLog') : attemptLog'[i].outcome = "not_found"
          /\ (pc' = "done") => result' = "failure"
          /\ viaMain' => (attemptLog' = <<>> /\ pc' = "exited" /\ exitCode' = 1) ]_vars

C20_Witness ==
    /\ ~inputExists /\ mode = "auto" /\ pc = "done" /\ result = "failure"
    /\ Len(attemptLog) = Len(encodings)
    /\ 1 \in DOMAIN disk /\ disk[1].state = "old"

====
